---- MODULE Spec2Model ----
(***************************************************************************)
(* Model of barcode_gen_copy.py: a Flask service (threaded=True) with the  *)
(* handlers /generate_barcode_new, /generate_qrcode_new and /scan_code_new *)
(* over four shared resources: the wall clock, the /tmp directory, the     *)
(* Supabase storage bucket and the two tables reached through a psycopg2   *)
(* SimpleConnectionPool(1, 10).                                            *)
(*                                                                         *)
(* Every Python string is a TLA+ string.  The clock reading int(time.time())*)
(* is an arbitrary-precision integer, kept as its sequence of decimal      *)
(* digits (most significant first) because readings of 12 and 13 digits    *)
(* matter to the identifier derivation.                                    *)
(***************************************************************************)
EXTENDS Integers, Sequences, FiniteSets, TLC

----------------------------------------------------------------------------
(* Bounds of the model *)

\* worker threads serving requests concurrently
NumThreads == 2
\* seconds the clock may advance
MaxTicks == 1
\* requests the clients send in all
MaxRequests == 3
\* lookups the clients send in all when the pool is run to its limit
PoolRequests == 12
\* requests the clients send in all where termination is checked
LiveRequests == 2

(* Program constants *)

\* pool.SimpleConnectionPool(1, 10, ...): maxconn
MAXCONN == 10
\* str(int(time.time()))[-12:].zfill(12)
ID_WIDTH == 12

SUPABASE_URL == "https://sb"
SUPABASE_BUCKET == "bucket"

\* Python's None, for the variables that hold a string or None
None == "<None>"

Threads == 1..NumThreads

\* The clock reading the service is started at: the last reading of 11 digits,
\* so that the run covers readings shorter than ID_WIDTH and, a second later,
\* a reading of ID_WIDTH digits
ClockStarts == { <<9,9,9,9,9,9,9,9,9,9,9>> }

\* JSON bodies the clients post to the generation routes, as (name, quantity);
\* an absent field is None.  The name is absent, empty or a product name; the
\* quantity is absent, 0 or a non-integer.
JsonBodies ==
    { <<None, None>>, <<"", None>>,
      <<"A", None>>, <<"B", None>>, <<"A", "0">>, <<"B", "x">> }

----------------------------------------------------------------------------
VARIABLES
    clock,      \* int(time.time()) as decimal digits
    ticks,      \* seconds elapsed since the start (bounds the clock)
    tmp,        \* /tmp: path -> bytes of the file
    bucket,     \* the storage bucket: object key -> bytes
    barcodes,   \* table barcodes: sequence of rows (name, unique_id, image_path)
    qrcodes,    \* table qrcodes
    used,       \* db_pool._used: connections checked out of the pool
    quota,      \* requests the clients have yet to send (bounds the run)
    th          \* per worker thread: the request it serves and its locals

vars == <<clock, ticks, tmp, bucket, barcodes, qrcodes, used, quota, th>>

----------------------------------------------------------------------------
(* Pure helpers *)

DigitChar == <<"0", "1", "2", "3", "4", "5", "6", "7", "8", "9">>

\* str(n) of a non-negative integer given by its digits
RECURSIVE Str(_)
Str(ds) == IF ds = <<>> THEN "" ELSE DigitChar[Head(ds) + 1] \o Str(Tail(ds))

\* n + 1 on the decimal digits
RECURSIVE Incr(_)
Incr(ds) ==
    IF ds = <<>> THEN <<1>>
    ELSE IF ds[Len(ds)] < 9
         THEN [ds EXCEPT ![Len(ds)] = @ + 1]
         ELSE Append(Incr(SubSeq(ds, 1, Len(ds) - 1)), 0)

\* mutant of LastN: s[:w], the leading characters
LastN_Leading(ds, w) == IF Len(ds) <= w THEN ds ELSE SubSeq(ds, 1, w)

\* s[-w:] on a sequence of characters
LastN(ds, w) == IF Len(ds) <= w THEN ds ELSE SubSeq(ds, Len(ds) - w + 1, Len(ds))

\* mutant of ZFill: no padding
ZFill_NoPad(ds, w) == ds

\* s.zfill(w) on a sequence of digit characters
ZFill(ds, w) == [i \in 1..(IF Len(ds) < w THEN w - Len(ds) ELSE 0) |-> 0] \o ds

\* the module-level generate_unique_id(): str(int(time.time()))
generate_unique_id(t) == Str(t)

\* the generate_unique_id() nested in generate_barcode:
\* str(int(time.time()))[-12:].zfill(12)
generate_unique_id_12(t) == Str(ZFill(LastN(t, ID_WIDTH), ID_WIDTH))

\* mutant of Falsy: the test "is None" in place of "not v"
Falsy_NoneOnly(v) == v = None

\* Python truthiness of a string-or-None value: "not v"
Falsy(v) == v = None \/ v = ""

\* data.get("quantity", 1)
GetQuantity(q) == IF q = None THEN "1" ELSE q

----------------------------------------------------------------------------
(* Library and service calls, as functions of the shared state they touch.  *)
(* Each returns the Python return value (ret), the new shared state and the *)
(* exception the function caught and printed (err, None when none).         *)
(* "fault" is the environment's choice that the call raises (an I/O,        *)
(* network or server error); every exception is caught by the caller's      *)
(* "except Exception".                                                      *)

\* files with path p (over)written to hold bytes b
WriteFile(files, p, b) == [q \in (DOMAIN files) \cup {p} |-> IF q = p THEN b ELSE files[q]]

\* the PNG an EAN-13 writer draws for a payload
BarcodeImage(unique_id) == "ean13:" \o unique_id

\* the PNG a QR writer draws for a payload
QrImage(data) == "qr:" \o data

generate_gs1_barcode(unique_id, files, fault) ==
    LET full_path == "/tmp/" \o unique_id \o ".png" IN
    IF fault
    THEN [ret |-> None, tmp |-> files, err |-> "OSError"]
    ELSE [ret |-> full_path, err |-> None,
          tmp |-> WriteFile(files, full_path, BarcodeImage(unique_id))]

generate_qr_code(data, unique_id, files, fault) ==
    LET qr_path == "/tmp/" \o unique_id \o "_qr.png" IN
    IF fault
    THEN [ret |-> None, tmp |-> files, err |-> "OSError"]
    ELSE [ret |-> qr_path, err |-> None,
          tmp |-> WriteFile(files, qr_path, QrImage(data))]

\* supabase.storage.from_(SUPABASE_BUCKET).upload(key, f, {"content-type": ...}):
\* the file options carry no upsert, so the request is a create, which the
\* storage service refuses when the key already holds an object; the client
\* raises on the refusal as on any other failed request.
StorageUpload(objs, key, bytes, fault) ==
    IF fault
    THEN [err |-> "StorageException: request failed", bucket |-> objs]
    ELSE IF key \in DOMAIN objs
    THEN [err |-> "StorageException: Duplicate", bucket |-> objs]
    ELSE [err |-> None, bucket |-> WriteFile(objs, key, bytes)]

Folder(file_type) == IF file_type = "barcode" THEN "barcodes" ELSE "qrcodes"

ObjectKey(unique_id, file_type) ==
    "static/" \o Folder(file_type) \o "/" \o unique_id \o ".png"

PublicUrl(unique_id, file_type) ==
    SUPABASE_URL \o "/storage/v1/object/public/" \o SUPABASE_BUCKET \o "/"
        \o ObjectKey(unique_id, file_type)

upload_to_supabase(image_path, unique_id, file_type, files, objs, fault) ==
    IF image_path \notin DOMAIN files
    THEN [ret |-> None, bucket |-> objs, err |-> "FileNotFoundError"]
    ELSE LET r == StorageUpload(objs, ObjectKey(unique_id, file_type),
                                files[image_path], fault) IN
         IF r.err = None
         THEN [ret |-> PublicUrl(unique_id, file_type), bucket |-> r.bucket, err |-> None]
         ELSE [ret |-> None, bucket |-> objs, err |-> r.err]

\* db_pool.getconn(): raises PoolError when maxconn connections are checked
\* out, and whatever connecting raises; otherwise one more is checked out.
\* The call is taken as one step: no other thread runs inside it.
get_db_connection(n, fault) ==
    IF n = MAXCONN
    THEN [err |-> "PoolError: connection pool exhausted", used |-> n]
    ELSE IF fault
    THEN [err |-> "OperationalError", used |-> n]
    ELSE [err |-> None, used |-> n + 1]

\* db_pool.putconn(conn)
release_db_connection(n) == n - 1

\* SELECT name, image_path FROM barcodes WHERE unique_id = u
\* UNION SELECT name, image_path FROM qrcodes WHERE unique_id = u
SelectUnion(u) ==
    { [name |-> barcodes[i].name, image_path |-> barcodes[i].image_path] :
        i \in { j \in 1..Len(barcodes) : barcodes[j].unique_id = u } }
    \cup
    { [name |-> qrcodes[i].name, image_path |-> qrcodes[i].image_path] :
        i \in { j \in 1..Len(qrcodes) : qrcodes[j].unique_id = u } }

\* mutant of TableOf: the image_type is not looked at
TableOf_AlwaysBarcodes(image_type) == "barcodes"

\* table = "barcodes" if image_type == "barcode" else "qrcodes"
TableOf(image_type) == IF image_type = "barcode" THEN "barcodes" ELSE "qrcodes"

\* mutant of InsertRow: the exception comes after the commit took effect
InsertRow_CommitThenRaise(rows, table, into, row, fault) ==
    IF table = into THEN Append(rows, row) ELSE rows

\* mutant of InsertRow: the INSERT replaces the rows of the same name
InsertRow_ReplaceSameName(rows, table, into, row, fault) ==
    IF ~fault /\ table = into
    THEN Append(SelectSeq(rows, LAMBDA old : old.name # row.name), row)
    ELSE rows

\* cur.execute(INSERT INTO {into} ...) and conn.commit() as seen by table
\* "table" with rows "rows": the row is there once both have returned
InsertRow(rows, table, into, row, fault) ==
    IF ~fault /\ table = into THEN Append(rows, row) ELSE rows

----------------------------------------------------------------------------
(* Requests *)

GenRoutes == {"generate_barcode_new", "generate_qrcode_new"}

\* the "barcode" / "qrcode" literal a handler passes down
FileType(route) == IF route = "generate_barcode_new" THEN "barcode" ELSE "qrcode"

\* jsonify({...}): the keys a response does not carry are None
Body(isSuccess, message, unique_id, image_path, name) ==
    [isSuccess |-> isSuccess, message |-> message, unique_id |-> unique_id,
     image_path |-> image_path, name |-> name]

NoBody == Body(FALSE, None, None, None, None)

Failure(message) == Body(FALSE, message, None, None, None)

\* a thread serving no request
Idle ==
    [pc |-> "idle", route |-> None, name |-> None, quantity |-> None,
     unique_id |-> None, path |-> None, url |-> None,
     status |-> 0, body |-> NoBody,
     printed |-> None,    \* the exception the request printed, if any
     trace |-> <<>>,      \* history: the steps this request attempted, in order
     inserted |-> <<>>]   \* history: the rows this request committed

\* the handler returns (body, status)
Return(r, status, body) == [r EXCEPT !.pc = "done", !.status = status, !.body = body]

InFlight(t) == th[t].pc \notin {"idle", "done"}

\* a client sends a request and a worker thread picks it up.  Threads are
\* interchangeable, so it is the first free one.
Accept(t) ==
    /\ ~InFlight(t)
    /\ \A u \in Threads : u < t => InFlight(u)
    /\ quota > 0
    /\ quota' = quota - 1

Init ==
    /\ clock \in ClockStarts
    /\ ticks = 0
    /\ tmp = << >>
    /\ bucket = << >>
    /\ barcodes = << >>
    /\ qrcodes = << >>
    /\ used = 0
    /\ quota = MaxRequests
    /\ th = [t \in Threads |-> Idle]

\* a second passes
Tick ==
    /\ ticks < MaxTicks
    /\ ticks' = ticks + 1
    /\ clock' = Incr(clock)
    /\ UNCHANGED <<tmp, bucket, barcodes, qrcodes, used, quota, th>>

\* lines 127-128 and 161-162: "if not name: return ..., 400", else on to the
\* render step with the identifier derived
Validated(r, unique_id) ==
    IF Falsy(r.name)
    THEN Return(r, 400, Failure("Missing required fields"))
    ELSE [r EXCEPT !.pc = "render", !.unique_id = unique_id, !.trace = <<"derive">>]

\* generate_barcode, lines 123-133: read the body, validate, derive the id
generate_barcode(t) ==
    /\ Accept(t)
    /\ \E data \in JsonBodies :
         th' = [th EXCEPT ![t] =
                Validated([Idle EXCEPT !.route = "generate_barcode_new",
                                       !.name = data[1],
                                       !.quantity = GetQuantity(data[2])],
                          generate_unique_id_12(clock))]
    /\ UNCHANGED <<clock, ticks, tmp, bucket, barcodes, qrcodes, used>>

\* generate_qrcode, lines 157-164
generate_qrcode(t) ==
    /\ Accept(t)
    /\ \E data \in JsonBodies :
         th' = [th EXCEPT ![t] =
                Validated([Idle EXCEPT !.route = "generate_qrcode_new",
                                       !.name = data[1],
                                       !.quantity = GetQuantity(data[2])],
                          generate_unique_id(clock))]
    /\ UNCHANGED <<clock, ticks, tmp, bucket, barcodes, qrcodes, used>>

\* mutant of Rendered: the handler does not test the renderer's result
Rendered_Unchecked(r, path) == [r EXCEPT !.pc = "upload"]

\* mutant of Rendered: a failed render is tried again
Rendered_Retry(r, path) ==
    IF path = None THEN [r EXCEPT !.pc = "render"] ELSE [r EXCEPT !.pc = "upload"]

\* lines 137-138 and 167-168: "if not barcode_path: return ..., 500"
Rendered(r, path) ==
    IF Falsy(path)
    THEN Return(r, 500, Failure(IF r.route = "generate_barcode_new"
                                THEN "Failed to generate barcode"
                                ELSE "Failed to generate QR Code"))
    ELSE [r EXCEPT !.pc = "upload"]

\* the render step of either handler (lines 136-138, 166-168)
Render(t) ==
    /\ th[t].pc = "render"
    /\ \E fault \in BOOLEAN :
         LET r == th[t]
             g == IF r.route = "generate_barcode_new"
                  THEN generate_gs1_barcode(r.unique_id, tmp, fault)
                  ELSE generate_qr_code(r.name, r.unique_id, tmp, fault)
         IN
         /\ tmp' = g.tmp
         /\ th' = [th EXCEPT ![t] =
                Rendered([r EXCEPT !.path = g.ret, !.printed = g.err,
                                   !.trace = Append(@, "render")], g.ret)]
    /\ UNCHANGED <<clock, ticks, bucket, barcodes, qrcodes, used, quota>>

\* mutant of Uploaded: the handler does not test the uploader's result
Uploaded_Unchecked(r, url) == [r EXCEPT !.pc = "store_connect"]

\* mutant of Uploaded: after a failed upload the handler never answers
Uploaded_NoAnswer(r, url) ==
    IF url = None THEN [r EXCEPT !.pc = "upload_failed"] ELSE [r EXCEPT !.pc = "store_connect"]

\* lines 141-142 and 171-172: "if not barcode_url: return ..., 500"
Uploaded(r, url) ==
    IF Falsy(url)
    THEN Return(r, 500, Failure(IF r.route = "generate_barcode_new"
                                THEN "Failed to upload barcode"
                                ELSE "Failed to upload QR Code"))
    ELSE [r EXCEPT !.pc = "store_connect"]

\* the upload step of either handler (lines 140-142, 170-172)
Upload(t) ==
    /\ th[t].pc = "upload"
    /\ \E fault \in BOOLEAN :
         LET r == th[t]
             u == upload_to_supabase(r.path, r.unique_id, FileType(r.route),
                                     tmp, bucket, fault)
         IN
         /\ bucket' = u.bucket
         /\ th' = [th EXCEPT ![t] =
                Uploaded([r EXCEPT !.url = u.ret, !.printed = u.err,
                                   !.trace = Append(@, "upload")], u.ret)]
    /\ UNCHANGED <<clock, ticks, tmp, barcodes, qrcodes, used, quota>>

\* store_product_in_db, line 105; when getconn raises, lines 115-117 and the
\* handler's "Database error" response
StoreConnect(t) ==
    /\ th[t].pc = "store_connect"
    /\ \E fault \in BOOLEAN :
         LET c == get_db_connection(used, fault)
             r == [th[t] EXCEPT !.printed = c.err, !.trace = Append(@, "persist")]
         IN
         /\ used' = c.used
         /\ th' = [th EXCEPT ![t] =
                IF c.err = None
                THEN [r EXCEPT !.pc = "store_insert"]
                ELSE Return(r, 500, Failure("Database error"))]
    /\ UNCHANGED <<clock, ticks, tmp, bucket, barcodes, qrcodes, quota>>

\* store_product_in_db, lines 106-118, and the handler's response
\* (lines 144-152, 174-182).  When execute or commit raises, control jumps to
\* the except clause past release_db_connection: the connection stays in
\* db_pool._used and its transaction is never committed.
StoreInsert(t) ==
    /\ th[t].pc = "store_insert"
    /\ \E fault \in BOOLEAN :
         LET r == th[t]
             table == TableOf(FileType(r.route))
             row == [name |-> r.name, unique_id |-> r.unique_id, image_path |-> r.url]
             b == InsertRow(barcodes, "barcodes", table, row, fault)
             q == InsertRow(qrcodes, "qrcodes", table, row, fault)
             wrote == (IF b # barcodes THEN <<[table |-> "barcodes", row |-> row]>> ELSE <<>>)
                      \o (IF q # qrcodes THEN <<[table |-> "qrcodes", row |-> row]>> ELSE <<>>)
             r1 == [r EXCEPT !.inserted = @ \o wrote]
         IN
         /\ barcodes' = b
         /\ qrcodes' = q
         /\ IF fault
            THEN /\ used' = used
                 /\ th' = [th EXCEPT ![t] =
                        Return([r1 EXCEPT !.printed = "DatabaseError"],
                               500, Failure("Database error"))]
            ELSE /\ used' = release_db_connection(used)
                 /\ th' = [th EXCEPT ![t] =
                        Return(r1, 201,
                               Body(TRUE,
                                    IF r.route = "generate_barcode_new"
                                    THEN "Barcode generated and stored successfully"
                                    ELSE "QR Code generated and stored successfully",
                                    r.unique_id, r.url, None))]
    /\ UNCHANGED <<clock, ticks, tmp, bucket, quota>>

\* identifiers a client may ask for: absent, unknown, or any stored one
UnknownId == "424242"

ScanIds ==
    {None, UnknownId}
    \cup { barcodes[i].unique_id : i \in 1..Len(barcodes) }
    \cup { qrcodes[i].unique_id : i \in 1..Len(qrcodes) }

\* scan_code, lines 187-191
scan_code(t) ==
    /\ Accept(t)
    /\ \E u \in ScanIds :
         LET r == [Idle EXCEPT !.route = "scan_code_new", !.unique_id = u] IN
         th' = [th EXCEPT ![t] =
                IF Falsy(u)
                THEN Return(r, 400, Failure("Unique ID is required"))
                ELSE [r EXCEPT !.pc = "scan_connect"]]
    /\ UNCHANGED <<clock, ticks, tmp, bucket, barcodes, qrcodes, used>>

\* scan_code, line 194; when getconn raises, lines 205-207
ScanConnect(t) ==
    /\ th[t].pc = "scan_connect"
    /\ \E fault \in BOOLEAN :
         LET c == get_db_connection(used, fault)
             r == [th[t] EXCEPT !.printed = c.err, !.trace = Append(@, "lookup")]
         IN
         /\ used' = c.used
         /\ th' = [th EXCEPT ![t] =
                IF c.err = None
                THEN [r EXCEPT !.pc = "scan_query"]
                ELSE Return(r, 500, Failure("Database error"))]
    /\ UNCHANGED <<clock, ticks, tmp, bucket, barcodes, qrcodes, quota>>

\* cur.fetchone() on an empty result: None, here a row of neither column
NoProduct == [name |-> None, image_path |-> None]

\* mutant of Found: the handler does not test "if not product"
Found_Unchecked(r, product) ==
    Return(r, 200, Body(TRUE, None, None, product.image_path, product.name))

\* lines 201-204: the response to the fetched row
Found(r, product) ==
    IF product = NoProduct
    THEN Return(r, 404, Failure("Product not found"))
    ELSE Return(r, 200, Body(TRUE, None, None, product.image_path, product.name))

\* scan_code, lines 195-207.  fetchone() returns the first row of the union,
\* whose order the query does not fix, or None.  When execute raises, the
\* connection is not released.
ScanQuery(t) ==
    /\ th[t].pc = "scan_query"
    /\ \E fault \in BOOLEAN :
         LET r == th[t]
             rows == SelectUnion(r.unique_id)
         IN
         IF fault
         THEN /\ th' = [th EXCEPT ![t] =
                     Return([r EXCEPT !.printed = "DatabaseError"],
                            500, Failure("Database error"))]
              /\ UNCHANGED used
         ELSE /\ used' = release_db_connection(used)
              /\ \E product \in (IF rows = {} THEN {NoProduct} ELSE rows) :
                     th' = [th EXCEPT ![t] = Found(r, product)]
    /\ UNCHANGED <<clock, ticks, tmp, bucket, barcodes, qrcodes, quota>>

Next ==
    \/ Tick
    \/ \E t \in Threads : generate_barcode(t)
    \/ \E t \in Threads : generate_qrcode(t)
    \/ \E t \in Threads : Render(t)
    \/ \E t \in Threads : Upload(t)
    \/ \E t \in Threads : StoreConnect(t)
    \/ \E t \in Threads : StoreInsert(t)
    \/ \E t \in Threads : scan_code(t)
    \/ \E t \in Threads : ScanConnect(t)
    \/ \E t \in Threads : ScanQuery(t)

Spec == Init /\ [][Next]_vars

----------------------------------------------------------------------------
(* The pool at its limit.  db_pool is a SimpleConnectionPool, whose getconn  *)
(* takes no lock, and app.run(threaded=True) serves every request on its    *)
(* own thread.  With no idle connection getconn first compares              *)
(* len(self._used) with maxconn and then connects, which waits on the       *)
(* network and lets other threads run, and only then enters the connection  *)
(* in self._used.  Here the two halves are steps of their own, and the      *)
(* clients send lookups only, enough of them to check out MAXCONN           *)
(* connections.                                                             *)

PoolInit ==
    /\ clock \in ClockStarts
    /\ ticks = 0
    /\ tmp = << >>
    /\ bucket = << >>
    /\ barcodes = << >>
    /\ qrcodes = << >>
    /\ used = 0
    /\ quota = PoolRequests
    /\ th = [t \in Threads |-> Idle]

\* getconn, first half: "if len(self._used) == self.maxconn: raise PoolError"
PoolCheck(t) ==
    /\ th[t].pc = "scan_connect"
    /\ LET r == [th[t] EXCEPT !.trace = Append(@, "lookup")] IN
       th' = [th EXCEPT ![t] =
              IF used = MAXCONN
              THEN Return([r EXCEPT !.printed = "PoolError: connection pool exhausted"],
                          500, Failure("Database error"))
              ELSE [r EXCEPT !.pc = "scan_connecting"]]
    /\ UNCHANGED <<clock, ticks, tmp, bucket, barcodes, qrcodes, used, quota>>

\* getconn, second half: connect, then "self._used[key] = conn"
PoolCreate(t) ==
    /\ th[t].pc = "scan_connecting"
    /\ \E fault \in BOOLEAN :
         IF fault
         THEN /\ th' = [th EXCEPT ![t] =
                     Return([th[t] EXCEPT !.printed = "OperationalError"],
                            500, Failure("Database error"))]
              /\ UNCHANGED used
         ELSE /\ th' = [th EXCEPT ![t].pc = "scan_query"]
              /\ used' = used + 1
    /\ UNCHANGED <<clock, ticks, tmp, bucket, barcodes, qrcodes, quota>>

PoolNext ==
    \/ \E t \in Threads : scan_code(t)
    \/ \E t \in Threads : PoolCheck(t)
    \/ \E t \in Threads : PoolCreate(t)
    \/ \E t \in Threads : ScanQuery(t)

PoolSpec == PoolInit /\ [][PoolNext]_vars

----------------------------------------------------------------------------
(* The identifier derivation over clock readings of every length.  The      *)
(* clients send /generate_barcode_new requests only, and each request       *)
(* stops where it hands its unique_id to the renderer.                      *)

\* readings of int(time.time()): 0, one digit, ten digits (the present),
\* eleven and twelve digits that a tick carries over, and longer ones
IdReadings ==
    { <<0>>,
      <<7>>,
      <<1, 7, 6, 2, 3, 3, 0, 0, 4, 2>>,
      <<9, 9, 9, 9, 9, 9, 9, 9, 9, 9, 9>>,
      <<1, 0, 0, 0, 0, 0, 0, 0, 0, 0, 0, 9>>,
      <<9, 9, 9, 9, 9, 9, 9, 9, 9, 9, 9, 9>>,
      <<5, 0, 0, 0, 0, 0, 0, 0, 0, 0, 0, 4, 2>>,
      <<1, 2, 3, 4, 5, 6, 7, 8, 9, 0, 1, 2, 3>>,
      <<3, 1, 4, 1, 5, 9, 2, 6, 5, 3, 5, 8, 9, 7>> }

IdInit ==
    /\ clock \in IdReadings
    /\ ticks = 0
    /\ tmp = << >>
    /\ bucket = << >>
    /\ barcodes = << >>
    /\ qrcodes = << >>
    /\ used = 0
    /\ quota = MaxRequests
    /\ th = [t \in Threads |-> Idle]

IdNext ==
    \/ Tick
    \/ \E t \in Threads : generate_barcode(t)

IdSpec == IdInit /\ [][IdNext]_vars

----------------------------------------------------------------------------
(* Termination.  Each request runs on a thread of its own that the          *)
(* operating system keeps scheduling, and every call a handler makes        *)
(* returns or raises: a request that can take its next step takes it.       *)
(* Requests of all three kinds start from a pool in which earlier lookups   *)
(* whose query raised have left none, all but one, or all of the MAXCONN    *)
(* connections checked out (lines 205-207 release nothing).                 *)

LeakedBefore == {0, MAXCONN - 1, MAXCONN}

LiveInit ==
    /\ clock \in ClockStarts
    /\ ticks = 0
    /\ tmp = << >>
    /\ bucket = << >>
    /\ barcodes = << >>
    /\ qrcodes = << >>
    /\ used \in LeakedBefore
    /\ quota = LiveRequests
    /\ th = [t \in Threads |-> Idle]

\* the next step of the request thread t serves
ThreadStep(t) ==
    \/ Render(t)
    \/ Upload(t)
    \/ StoreConnect(t)
    \/ StoreInsert(t)
    \/ ScanConnect(t)
    \/ ScanQuery(t)

LiveSpec == LiveInit /\ [][Next]_vars /\ \A t \in Threads : WF_vars(ThreadStep(t))

----------------------------------------------------------------------------
(* Properties *)

Rows == { barcodes[i] : i \in 1..Len(barcodes) } \cup { qrcodes[i] : i \in 1..Len(qrcodes) }

\* the steps of request t so far include step s
Attempted(t, s) == \E i \in 1..Len(th[t].trace) : th[t].trace[i] = s

\* thread t takes a step
Steps(t) == th'[t] # th[t]

\* C1: no row references a URL unless the upload of the same request
\* returned it: a request that has committed a row holds the URL its upload
\* returned, and the row carries it; every row's object is in the bucket under
\* the key its URL names; a request whose upload returned None has answered
\* 500 without calling store_product_in_db.
C1_NoRowWithoutUpload ==
    /\ \A t \in Threads :
         LET r == th[t] IN
         /\ r.inserted # <<>> =>
              /\ Attempted(t, "upload")
              /\ r.url # None
              /\ \A i \in 1..Len(r.inserted) : r.inserted[i].row.image_path = r.url
         /\ Attempted(t, "persist") => r.url # None
         /\ (Attempted(t, "upload") /\ r.url = None) =>
              /\ r.pc = "done"
              /\ r.status = 500
              /\ ~Attempted(t, "persist")
              /\ r.inserted = <<>>
    /\ \A i \in 1..Len(barcodes) :
         /\ ObjectKey(barcodes[i].unique_id, "barcode") \in DOMAIN bucket
         /\ barcodes[i].image_path = PublicUrl(barcodes[i].unique_id, "barcode")
    /\ \A i \in 1..Len(qrcodes) :
         /\ ObjectKey(qrcodes[i].unique_id, "qrcode") \in DOMAIN bucket
         /\ qrcodes[i].image_path = PublicUrl(qrcodes[i].unique_id, "qrcode")

\* C1 witness: one request's upload has failed and it answered 500, while a
\* row of another request is stored
C1_Witness ==
    /\ Rows # {}
    /\ \E t \in Threads :
         /\ Attempted(t, "upload")
         /\ th[t].url = None
         /\ th[t].status = 500

\* C2: whenever no request is in progress, no connection is checked out
C2_AllReleasedWhenQuiet ==
    (\A t \in Threads : ~InFlight(t)) => used = 0

\* C3: a generation that succeeded with unique_id U, name N and URL L has
\* left the row (N, U, L) (StoreInsert commits the row and answers 201 in one
\* step, and rows are never removed).  Every scan of U whose query succeeds
\* from then on answers 200 with N and L.
C3_LookupRoundTrip ==
    [][ \A t \in Threads :
          (th[t].pc = "scan_query" /\ th'[t].pc = "done" /\ th'[t].status # 500) =>
             \A row \in Rows :
                row.unique_id = th[t].unique_id =>
                   /\ th'[t].status = 200
                   /\ th'[t].body.isSuccess
                   /\ th'[t].body.name = row.name
                   /\ th'[t].body.image_path = row.image_path ]_vars

\* C4: a generation request whose name is missing or empty is answered 400
\* with isSuccess false before any renderer, uploader or database call, and
\* none of its steps changes /tmp, the bucket, a table or the pool.
C4_MissingNameRejected ==
    /\ [] (\A t \in Threads :
             (th[t].route \in GenRoutes /\ th[t].name \in {None, ""}) =>
                /\ th[t].pc = "done"
                /\ th[t].status = 400
                /\ ~th[t].body.isSuccess
                /\ th[t].trace = <<>>
                /\ th[t].inserted = <<>>)
    /\ [][ \A t \in Threads :
             (Steps(t) /\ th'[t].route \in GenRoutes /\ th'[t].name \in {None, ""}) =>
                UNCHANGED <<tmp, bucket, barcodes, qrcodes, used>> ]_vars

\* C4 witness: a request with an empty name was answered 400 while a row and
\* an object of an earlier request are stored
C4_Witness ==
    /\ Rows # {}
    /\ \E t \in Threads :
         /\ th[t].route \in GenRoutes
         /\ th[t].name = ""
         /\ th[t].status = 400

\* C5: a generation request with a name and a quantity below 1 or not an
\* integer is answered 400 with isSuccess false before any renderer, uploader
\* or database call.
C5_BadQuantityRejected ==
    \A t \in Threads :
       (th[t].route \in GenRoutes /\ th[t].name \notin {None, ""}
            /\ th[t].quantity \in {"0", "x"}) =>
          /\ th[t].pc = "done" => (th[t].status = 400 /\ ~th[t].body.isSuccess)
          /\ ~Attempted(t, "render")
          /\ ~Attempted(t, "upload")
          /\ ~Attempted(t, "persist")

\* the step in which the scan request of thread t ends
ScanEnds(t) ==
    /\ th[t].pc \in {"scan_connect", "scan_query"}
    /\ th'[t].pc = "done"

\* C6 as stated: a scan of a unique_id in neither table is answered 404 with
\* isSuccess false and "Product not found", and changes no row.
C6_MissAnswers404 ==
    [][ \A t \in Threads :
          (ScanEnds(t) /\ SelectUnion(th[t].unique_id) = {}) =>
             /\ th'[t].status = 404
             /\ ~th'[t].body.isSuccess
             /\ th'[t].body.message = "Product not found"
             /\ UNCHANGED <<barcodes, qrcodes>> ]_vars

\* C6 amended: a scan of a non-empty unique_id in neither table is answered
\* 404 with isSuccess false and "Product not found" when getting the
\* connection and the query raise nothing, and 500 "Database error" when one
\* of them raises; no step of a scan request inserts or changes a row.
C6_MissAnswers404UnlessDbError ==
    [][ \A t \in Threads :
          /\ (ScanEnds(t) /\ SelectUnion(th[t].unique_id) = {}) =>
                /\ ~th'[t].body.isSuccess
                /\ IF th'[t].printed = None
                   THEN th'[t].status = 404 /\ th'[t].body.message = "Product not found"
                   ELSE th'[t].status = 500 /\ th'[t].body.message = "Database error"
          /\ (Steps(t) /\ th'[t].route = "scan_code_new") =>
                UNCHANGED <<barcodes, qrcodes>> ]_vars

\* C6 witness: a scan of an unknown id was answered 404 while the tables
\* hold a row
C6_Witness ==
    /\ Rows # {}
    /\ \E t \in Threads :
         /\ th[t].route = "scan_code_new"
         /\ th[t].unique_id = UnknownId
         /\ th[t].status = 404

\* the row a generation request writes and the table it belongs in
RowOf(r) == [name |-> r.name, unique_id |-> r.unique_id, image_path |-> r.url]

KindTable(route) == IF route = "generate_barcode_new" THEN "barcodes" ELSE "qrcodes"

\* C7: a generation request answered 201 returns its unique_id and one URL,
\* and has committed exactly one row, (name, unique_id, that URL), into the
\* table of its kind; the step in which it answers appends that row to that
\* table and leaves the other table as it was.
C7_SuccessWritesOneRow ==
    /\ [] (\A t \in Threads :
             (th[t].route \in GenRoutes /\ th[t].status = 201) =>
                /\ th[t].body.isSuccess
                /\ th[t].body.unique_id = th[t].unique_id
                /\ th[t].body.unique_id # None
                /\ th[t].body.image_path = th[t].url
                /\ th[t].body.image_path # None
                /\ th[t].inserted =
                      << [table |-> KindTable(th[t].route), row |-> RowOf(th[t])] >>)
    /\ [][ \A t \in Threads :
             (Steps(t) /\ th'[t].route \in GenRoutes /\ th'[t].status = 201) =>
                IF th'[t].route = "generate_barcode_new"
                THEN /\ barcodes' = Append(barcodes, RowOf(th'[t]))
                     /\ qrcodes' = qrcodes
                ELSE /\ qrcodes' = Append(qrcodes, RowOf(th'[t]))
                     /\ barcodes' = barcodes ]_vars

\* C7 witness: a QR request was answered 201 while the barcodes table holds
\* a row of another request
C7_Witness ==
    /\ Len(barcodes) > 0
    /\ \E t \in Threads :
         /\ th[t].route = "generate_qrcode_new"
         /\ th[t].status = 201

\* C8: an upload to a key that already holds an object, of a file that
\* exists, succeeds unless the request to the storage service itself fails:
\* it returns the public URL of the key and leaves the key holding the bytes
\* just uploaded.
C8_SecondUploadOverwrites ==
    [][ \A t \in Threads :
          LET key == ObjectKey(th[t].unique_id, FileType(th[t].route)) IN
          (/\ th[t].pc = "upload"
           /\ Steps(t)
           /\ th[t].path \in DOMAIN tmp
           /\ key \in DOMAIN bucket
           /\ th'[t].printed # "StorageException: request failed") =>
             /\ th'[t].url = PublicUrl(th[t].unique_id, FileType(th[t].route))
             /\ bucket'[key] = tmp[th[t].path] ]_vars

\* C9: a request whose render step returned None has answered 500 right
\* after it, with no upload and no database call and no row written; and no
\* step of a request that holds no rendered file changes the bucket or a
\* table.
C9_RenderFailureStops ==
    /\ [] (\A t \in Threads :
             (Attempted(t, "render") /\ th[t].path = None) =>
                /\ th[t].pc = "done"
                /\ th[t].status = 500
                /\ ~th[t].body.isSuccess
                /\ th[t].trace = <<"derive", "render">>
                /\ th[t].url = None
                /\ th[t].inserted = <<>>)
    /\ [][ \A t \in Threads :
             (Steps(t) /\ th'[t].route \in GenRoutes /\ th'[t].path = None) =>
                UNCHANGED <<bucket, barcodes, qrcodes>> ]_vars

\* C9 witness: a render failed and was answered 500 while the bucket and the
\* tables hold what an earlier request stored
C9_Witness ==
    /\ Rows # {}
    /\ \E t \in Threads :
         /\ th[t].route \in GenRoutes
         /\ Attempted(t, "render")
         /\ th[t].path = None
         /\ th[t].status = 500

PipelineSteps == <<"derive", "render", "upload", "persist">>

\* C11: the steps a generation request has attempted are a prefix of Derive,
\* Render, Upload, Persist, so each was attempted at most once and in that
\* order; Upload was attempted only with a rendered file and Persist only with
\* an uploaded URL; a request one of whose steps failed has answered 500 with
\* that step its last; every step of a request in progress attempts exactly
\* the next step of the same request (or finishes the persist step, which
\* takes two), and a request that has answered takes no further step.
C11_StrictSequence ==
    /\ [] (\A t \in Threads :
             th[t].route \in GenRoutes =>
                LET r == th[t]
                    n == Len(r.trace)
                IN
                /\ n <= Len(PipelineSteps)
                /\ r.trace = SubSeq(PipelineSteps, 1, n)
                /\ n >= 3 => r.path # None
                /\ n >= 4 => r.url # None
                /\ ((n = 2 /\ r.path = None) \/ (n = 3 /\ r.url = None)
                       \/ (n = 4 /\ r.printed # None)) =>
                      (r.pc = "done" /\ r.status = 500 /\ ~r.body.isSuccess)
                /\ r.pc = "done" => r.status \in {201, 400, 500}
                /\ r.status = 201 => (n = 4 /\ r.printed = None))
    /\ [][ \A t \in Threads :
             /\ (Steps(t) /\ InFlight(t) /\ th[t].route \in GenRoutes) =>
                   /\ th'[t].trace =
                         IF th[t].pc = "store_insert"   \* still in the persist step
                         THEN th[t].trace
                         ELSE SubSeq(PipelineSteps, 1, Len(th[t].trace) + 1)
                   /\ th'[t].route = th[t].route
                   /\ th'[t].unique_id = th[t].unique_id
                   /\ th'[t].name = th[t].name
             /\ (Steps(t) /\ th[t].pc = "done") => Len(th'[t].trace) <= 1 ]_vars

\* C11 witness: one request went through all four steps and answered 201,
\* another stopped at its failed upload
C11_Witness ==
    \E t, u \in Threads :
       /\ th[t].route \in GenRoutes
       /\ th[t].trace = PipelineSteps
       /\ th[t].status = 201
       /\ th[u].route \in GenRoutes
       /\ th[u].trace = <<"derive", "render", "upload">>
       /\ th[u].url = None
       /\ th[u].status = 500

\* C12: when a generation request uploads while a concurrent request of the
\* same kind and the same unique_id has already uploaded, and the request to
\* the storage service itself does not fail, the later upload succeeds too,
\* the object key then holds the later bytes, and the later request goes on
\* to insert its own row.
C12_LaterUploadWins ==
    [][ \A t, u \in Threads :
          LET key == ObjectKey(th[t].unique_id, FileType(th[t].route)) IN
          (/\ t # u
           /\ th[t].route \in GenRoutes
           /\ th[u].route = th[t].route
           /\ th[u].unique_id = th[t].unique_id
           /\ InFlight(u)
           /\ th[u].url # None
           /\ th[t].pc = "upload"
           /\ Steps(t)
           /\ th[t].path \in DOMAIN tmp
           /\ th'[t].printed # "StorageException: request failed") =>
             /\ th'[t].url = PublicUrl(th[t].unique_id, FileType(th[t].route))
             /\ th'[t].pc = "store_connect"
             /\ bucket'[key] = tmp[th[t].path] ]_vars

\* the bytes the render step of request r writes
OwnImage(r) ==
    IF r.route = "generate_barcode_new" THEN BarcodeImage(r.unique_id) ELSE QrImage(r.name)

\* C13: the staging file a generation request reads in its upload step holds
\* the bytes the same request rendered (for a QR request the encoding of its
\* own name), under every interleaving.
C13_StagingFileIsOwn ==
    [][ \A t \in Threads :
          (/\ th[t].route \in GenRoutes
           /\ th[t].pc = "upload"
           /\ Steps(t)
           /\ th[t].path \in DOMAIN tmp) =>
             tmp[th[t].path] = OwnImage(th[t]) ]_vars

C15_PoolBoundedFailsFast ==
    /\ [] (used <= MAXCONN)
    /\ [][ \A t \in Threads :
             /\ (Steps(t) /\ th[t].pc = "scan_connect" /\ used >= MAXCONN) =>
                   /\ th'[t].pc = "done"
                   /\ th'[t].status = 500
                   /\ th'[t].body.message = "Database error"
             /\ used' > used => used < MAXCONN ]_vars

\* sequence s is an initial part of sequence t
IsPrefix(s, t) == Len(s) <= Len(t) /\ SubSeq(t, 1, Len(s)) = s

\* C16: every step leaves each table's rows in place and unchanged and at
\* most adds rows after them; no step of a scan request changes a table; and
\* every row a request has committed is in its table, with the fields it was
\* written with.
C16_RowsImmutable ==
    /\ [][ /\ IsPrefix(barcodes, barcodes')
           /\ IsPrefix(qrcodes, qrcodes')
           /\ \A t \in Threads :
                (Steps(t) /\ th'[t].route = "scan_code_new") =>
                   UNCHANGED <<barcodes, qrcodes>> ]_vars
    /\ [] (\A t \in Threads :
             \A i \in 1..Len(th[t].inserted) :
                LET w == th[t].inserted[i]
                    rows == IF w.table = "barcodes" THEN barcodes ELSE qrcodes
                IN \E k \in 1..Len(rows) : rows[k] = w.row)

\* C16 witness: two rows are stored and a scan has found one of them
C16_Witness ==
    /\ Len(barcodes) + Len(qrcodes) >= 2
    /\ \E t \in Threads :
         /\ th[t].route = "scan_code_new"
         /\ th[t].status = 200
         /\ th[t].body.name \in { row.name : row \in Rows }

\* the decimal digit of the non-negative integer t at position p (0 = units)
DigitAt(t, p) == IF p < Len(t) THEN t[Len(t) - p] ELSE 0

\* the w decimal digits of t mod 10^w, most significant first
ModPow10(t, w) == [i \in 1..w |-> DigitAt(t, w - i)]

\* C17: for every clock reading t >= 0, the unique_id with which a
\* /generate_barcode_new request goes to the renderer is a string of exactly
\* 12 characters, the decimal digits of t mod 10^12 with leading zeros.
C17_TwelveDigitsOfClock ==
    [][ \A t \in Threads :
          (/\ Steps(t)
           /\ th[t].pc # "render"
           /\ th'[t].pc = "render"
           /\ th'[t].route = "generate_barcode_new") =>
             /\ Len(th'[t].unique_id) = ID_WIDTH
             /\ th'[t].unique_id = Str(ModPow10(clock, ID_WIDTH)) ]_vars

\* C17 witness: a 13-digit reading was cut to its last 12 digits, which
\* begin with zeros
C17_Witness ==
    /\ clock = <<5, 0, 0, 0, 0, 0, 0, 0, 0, 0, 0, 4, 2>>
    /\ \E t \in Threads :
         /\ th[t].route = "generate_barcode_new"
         /\ th[t].pc = "render"
         /\ th[t].unique_id = "000000000042"

\* C18: while the clock reading has fewer than 12 digits, a barcode unique_id
\* has 12 characters and a QR unique_id fewer, so no barcode request and QR
\* request hold the same unique_id, no unique_id is in both tables, and the
\* rows a lookup selects come from one table only.
C18_KindsDisjointBelow12Digits ==
    Len(clock) < ID_WIDTH =>
       /\ \A t, u \in Threads :
            (/\ th[t].route = "generate_barcode_new"
             /\ th[u].route = "generate_qrcode_new"
             /\ th[t].unique_id # None) =>
               /\ Len(th[t].unique_id) = ID_WIDTH
               /\ th[t].unique_id # th[u].unique_id
       /\ \A i \in 1..Len(barcodes) : Len(barcodes[i].unique_id) = ID_WIDTH
       /\ \A j \in 1..Len(qrcodes) : Len(qrcodes[j].unique_id) < ID_WIDTH
       /\ \A i \in 1..Len(barcodes), j \in 1..Len(qrcodes) :
            barcodes[i].unique_id # qrcodes[j].unique_id
       /\ \A id \in ScanIds :
            \/ SelectUnion(id) \subseteq
                  { [name |-> barcodes[i].name, image_path |-> barcodes[i].image_path] :
                       i \in 1..Len(barcodes) }
            \/ SelectUnion(id) \subseteq
                  { [name |-> qrcodes[j].name, image_path |-> qrcodes[j].image_path] :
                       j \in 1..Len(qrcodes) }

\* C18 witness: with an 11-digit clock both tables hold a row and a lookup
\* has found one
C18_Witness ==
    /\ Len(clock) < ID_WIDTH
    /\ Len(barcodes) > 0
    /\ Len(qrcodes) > 0
    /\ \E t \in Threads :
         /\ th[t].route = "scan_code_new"
         /\ th[t].status = 200

\* C19: every request a thread has taken up is eventually answered, with one
\* of the statuses of its route, whatever step fails and also when the pool
\* has no connection left; a thread that has answered holds exactly that one
\* response.
C19_EveryRequestAnswered ==
    /\ \A t \in Threads :
         InFlight(t) ~>
            (th[t].pc = "done"
               /\ th[t].status \in (IF th[t].route = "scan_code_new"
                                    THEN {200, 400, 404, 500}
                                    ELSE {201, 400, 500}))
    /\ [] (\A t \in Threads :
             /\ th[t].pc = "done" => th[t].status \in {200, 201, 400, 404, 500}
             /\ th[t].pc # "done" => th[t].status = 0)

\* C19 witness: one request was answered 500 because the pool was exhausted
\* while the other was answered 201
C19_Witness ==
    \E t, u \in Threads :
       /\ th[t].pc = "done"
       /\ th[t].printed = "PoolError: connection pool exhausted"
       /\ th[t].status = 500
       /\ th[u].pc = "done"
       /\ th[u].status = 201

====
